---- MODULE Spec2Model ----
(***************************************************************************)
(* Model of apply_historical_to_monthly.py: the script that combines the   *)
(* opening_balance snapshot with voucher sums and upserts one row per      *)
(* (account, month) into monthly_balance.                                  *)
(*                                                                         *)
(* Text values are sequences of one-character strings, so that lower-      *)
(* casing and substring search are computed and not assumed.  SQL NULL /   *)
(* Python None of a text column is the one-element tuple NULL; a nullable  *)
(* number is <<>> (NULL) or <<v>>.  Amounts are integers (the script uses  *)
(* floats and never rounds).  A month key 'YYYY-MM' is the pair            *)
(* <<YYYY, MM>>: the string order of zero-padded keys is the               *)
(* lexicographic order of the pairs.  The opening_balance table holds one  *)
(* record per account.                                                     *)
(***************************************************************************)
EXTENDS Integers, Sequences, FiniteSets, TLC

\* ------------------------------------------------------------------ bounds
\* Events the environment may inject over a behaviour: a transient failure
\* of a database call, or a voucher row posted after a successful run.
MaxEvents == 1

\* ------------------------------------------------------- program constants
NumMonths == 9
MONTHS == [k \in 1..NumMonths |-> <<2025, k>>]
OPENING_BALANCE_TABLE == "opening_balance"
HISTORICAL_TABLE == "historical_variance"
MONTHLY_TABLE == "monthly_balance"
\* The literal '2025-07' of the month_key comparisons.
LastHistoricalKey == <<2025, 7>>
\* The literal voucher tags of the NOT IN (...) filters.
ExcludedVouchers == {"BRTFWD", "ROLCLR", "OBTFER"}
\* Exit statuses: sys.exit(2), an uncaught exception, sys.exit(5), normal end.
EXIT_OK == 0
EXIT_UNCAUGHT == 1
EXIT_TABLE_MISSING == 2
EXIT_UPSERT == 5

\* ------------------------------------------------------------ text values
NULL == <<"NULL">>
EMPTY == << >>
UpperCase == <<"A","B","C","D","E","F","G","H","I","J","K","L","M",
               "N","O","P","Q","R","S","T","U","V","W","X","Y","Z">>
LowerCase == <<"a","b","c","d","e","f","g","h","i","j","k","l","m",
               "n","o","p","q","r","s","t","u","v","w","x","y","z">>

\* str(v): None prints as 'None'.
AsStr(v) == IF v = NULL THEN <<"N","o","n","e">> ELSE v

LowerChar(c) ==
  IF \E k \in 1..Len(UpperCase) : UpperCase[k] = c
  THEN LowerCase[CHOOSE k \in 1..Len(UpperCase) : UpperCase[k] = c]
  ELSE c

\* str.lower()
StrLower(s) == [k \in 1..Len(s) |-> LowerChar(s[k])]

\* str.contains(pat) for a literal pattern
StrContains(s, pat) ==
  \E k \in 0..(Len(s) - Len(pat)) : SubSeq(s, k + 1, k + Len(pat)) = pat

KwAsset == <<"a","s","s","e","t">>
KwLiab == <<"l","i","a","b">>
KwIncome == <<"i","n","c","o","m","e">>
KwExpens == <<"e","x","p","e","n","s">>

\* ------------------------------------------------------------- month keys
KeyLE(a, b) == a[1] < b[1] \/ (a[1] = b[1] /\ a[2] <= b[2])
YearOf(month_key) == month_key[1]
MonthOf(month_key) == month_key[2]

\* ------------------------------------------------------------------ state
VARIABLES
  tables,               \* names of the tables that exist in the schema
  opening_balance,      \* table: account -> [opening_balance, account_type, description]
  historical_variance,  \* table: set of [account, month_key, smoothened_amount, journal_amount]
  vouchers,             \* rows of both transaction tables, each tagged with its table
  monthly_balance,      \* table: <<account, month_key>> -> [opening_balance, description, account_type]
  pc,                   \* position of the script
  exit_code,            \* exit status of the last ended run
  ob_df_all,            \* the snapshot as loaded by this run
  accounts_cum,
  accounts_noncum,
  i,                    \* index into MONTHS of the month being processed
  rows,                 \* the batch built for the current month
  n,                    \* value returned by the last upsert_monthly_rows call
  events,               \* environment events still allowed
  ob_read,              \* history: this run has read the opening_balance table
  failure_seen,         \* history: a query or upsert of this run has failed
  fetch_failed,         \* history: month indexes whose non-cumulative fetch failed in this run
  writes,               \* history: batches committed by this run, in order, <<group, index>>
  last_done,            \* history: table and failed fetches at the last successful end
  changed               \* history: <<account, month_key>> cells posted to since then

vars == <<tables, opening_balance, historical_variance, vouchers, monthly_balance,
          pc, exit_code, ob_df_all, accounts_cum, accounts_noncum, i, rows, n,
          events, ob_read, failure_seen, fetch_failed, writes,
          last_done, changed>>

\* ------------------------------------------------------- bounded input data
Accounts == {"1000", "4000"}
AllTables == {OPENING_BALANCE_TABLE, HISTORICAL_TABLE, MONTHLY_TABLE,
              "vouchers", "vouchers_curr_month"}

TxtFixedAsset == <<"F","i","x","e","d"," ","A","s","s","e","t">>
TxtLiability == <<"L","I","A","B","I","L","I","T","Y">>
TxtIncome == <<"I","n","c","o","m","e">>
TxtExpenses == <<"E","x","p","e","n","s","e","s">>
TxtAssetIncome == <<"A","s","s","e","t","/","I","n","c","o","m","e">>
TxtEquity == <<"E","q","u","i","t","y">>
TxtCash == <<"C","a","s","h">>
TxtFees == <<"F","e","e","s">>
TxtOld == <<"O","l","d">>

\* Rows an opening_balance record is drawn from: every keyword, a label that
\* matches both keyword sets, labels that match none, NULL amount and texts.
SnapshotRows ==
  { [opening_balance |-> <<1000>>, account_type |-> TxtFixedAsset, description |-> TxtCash],
    [opening_balance |-> << >>, account_type |-> TxtLiability, description |-> EMPTY],
    [opening_balance |-> <<50>>, account_type |-> TxtIncome, description |-> NULL],
    [opening_balance |-> <<20>>, account_type |-> TxtExpenses, description |-> TxtFees],
    [opening_balance |-> <<30>>, account_type |-> TxtAssetIncome, description |-> TxtCash],
    [opening_balance |-> <<7>>, account_type |-> TxtEquity, description |-> TxtCash],
    [opening_balance |-> <<7>>, account_type |-> NULL, description |-> EMPTY] }

DefaultSnapshot ==
  [a \in Accounts |->
     IF a = "1000"
     THEN [opening_balance |-> <<1000>>, account_type |-> TxtFixedAsset, description |-> TxtCash]
     ELSE [opening_balance |-> <<50>>, account_type |-> TxtIncome, description |-> NULL]]

Voucher(id, tbl, acct, date, amount, tag) ==
  [id |-> id, tbl |-> tbl, account_code |-> acct, transaction_date |-> date,
   amount_original |-> amount, voucher |-> tag]

\* Both accounts have ordinary and marker vouchers on both sides of the
\* table cut-over, rows filed in the table the script does not read for
\* their month, and a row of another year.
DefaultVouchers ==
  { Voucher(1, "vouchers", "1000", <<2025, 1>>, 50, "JV"),
    Voucher(2, "vouchers", "1000", <<2025, 1>>, 9999, "BRTFWD"),
    Voucher(3, "vouchers", "1000", <<2025, 2>>, -20, "JV"),
    Voucher(4, "vouchers", "4000", <<2025, 2>>, 7, "JV"),
    Voucher(5, "vouchers", "4000", <<2025, 7>>, 3, "ROLCLR"),
    Voucher(6, "vouchers", "4000", <<2025, 8>>, 11, "JV"),
    Voucher(7, "vouchers_curr_month", "4000", <<2025, 8>>, 4, "JV"),
    Voucher(8, "vouchers_curr_month", "1000", <<2025, 9>>, 6, "OBTFER"),
    Voucher(9, "vouchers_curr_month", "1000", <<2025, 9>>, 2, "JV"),
    Voucher(10, "vouchers_curr_month", "4000", <<2025, 3>>, 13, "JV"),
    Voucher(11, "vouchers", "1000", <<2024, 1>>, 17, "JV") }

DefaultHistorical ==
  { [account |-> "1000", month_key |-> <<2025, 1>>, smoothened_amount |-> <<40>>, journal_amount |-> <<50>>],
    [account |-> "4000", month_key |-> <<2025, 2>>, smoothened_amount |-> << >>, journal_amount |-> <<9>>],
    [account |-> "4000", month_key |-> <<2025, 7>>, smoothened_amount |-> <<1>>, journal_amount |-> << >>] }

\* What the environment may post after a run: an ordinary voucher of either
\* account, dated before or after the table cut-over.
PostDates == {<<2025, 2>>, <<2025, 9>>}
PostAmount == 5

\* ------------------------------------------------------------ SQL helpers
RECURSIVE SumAmounts(_)
SumAmounts(S) ==
  IF S = {} THEN 0
  ELSE LET r == CHOOSE x \in S : TRUE
       IN r.amount_original + SumAmounts(S \ {r})

\* COALESCE(x, 0) / fillna(0) / float(x or 0) of a nullable number
Coalesce0(x) == IF x = << >> THEN 0 ELSE x[1]

\* IFNULL(NULLIF(stored, ''), incoming)
NullIf(x, y) == IF x = y THEN NULL ELSE x
IfNull(x, y) == IF x = NULL THEN y ELSE x
\* Mutant: the incoming value always replaces the stored one.
KeepOrFillClobber(stored, incoming) == incoming

KeepOrFill(stored, incoming) == IfNull(NullIf(stored, EMPTY), incoming)

\* dict.get(key, default)
DictGet(d, key, default) == IF key \in DOMAIN d THEN d[key] ELSE default

\* ------------------------------------------------------ account classifier
acct_type_norm(row) == StrLower(AsStr(row.account_type))

mask_cum(row) ==
  StrContains(acct_type_norm(row), KwAsset) \/ StrContains(acct_type_norm(row), KwLiab)

mask_noncum(row) ==
  StrContains(acct_type_norm(row), KwIncome) \/ StrContains(acct_type_norm(row), KwExpens)

AccountsCum(df) == {a \in DOMAIN df : mask_cum(df[a])}
AccountsNoncum(df) == {a \in DOMAIN df : mask_noncum(df[a])}

\* ----------------------------------------------------------- data sources
\* The table a month's vouchers are read from.
voucher_table(month_key) ==
  IF KeyLE(month_key, LastHistoricalKey) THEN "vouchers" ELSE "vouchers_curr_month"

\* The rows the voucher queries select for one account and month.
VoucherRows(vs, month_key, acct) ==
  {r \in vs : /\ r.tbl = voucher_table(month_key)
              /\ r.account_code = acct
              /\ r.transaction_date[1] = YearOf(month_key)
              /\ r.transaction_date[2] = MonthOf(month_key)
              /\ r.voucher \notin ExcludedVouchers}

\* SELECT COALESCE(SUM(amount_original), 0) of the cumulative loop
voucher_sum_q(vs, month_key, acct) == SumAmounts(VoucherRows(vs, month_key, acct))

\* total_vouchers of the cumulative loop: the sum over MONTHS[:idx]
RECURSIVE total_vouchers(_, _, _)
total_vouchers(vs, acct, idx) ==
  IF idx = 0 THEN 0
  ELSE total_vouchers(vs, acct, idx - 1) + voucher_sum_q(vs, MONTHS[idx], acct)

\* Mutant: the fetch without the voucher NOT IN (...) filter.
fetch_voucher_amounts_unfiltered(vs, month_key, acct_list) ==
  LET sel(a) == {r \in vs : /\ r.tbl = voucher_table(month_key)
                            /\ r.account_code = a
                            /\ r.transaction_date = month_key}
  IN  [a \in {x \in acct_list : sel(x) # {}} |-> SumAmounts(sel(a))]

\* The dict returned by a successful fetch: GROUP BY yields a key only for
\* an account with at least one selected row.
fetch_voucher_amounts_for_month(vs, month_key, acct_list) ==
  [a \in {x \in acct_list : VoucherRows(vs, month_key, x) # {}} |->
     SumAmounts(VoucherRows(vs, month_key, a))]

\* The dict returned by the historical helper (the script never calls it).
fetch_historical_for_month(hv, vs, month_key, acct_list, use_smoothened) ==
  LET hit(a) == {r \in hv : r.account = a /\ r.month_key = month_key}
      one(a) == CHOOSE r \in hit(a) : TRUE
      aug(a) == {r \in vs : /\ r.tbl = "vouchers_curr_month"
                            /\ r.account_code = a
                            /\ r.transaction_date = <<2025, 8>>}
  IN  IF use_smoothened /\ KeyLE(month_key, LastHistoricalKey)
      THEN [a \in {x \in acct_list : hit(x) # {}} |-> Coalesce0(one(a).smoothened_amount)]
      ELSE IF (~use_smoothened) /\ KeyLE(month_key, LastHistoricalKey)
      THEN [a \in {x \in acct_list : hit(x) # {}} |-> Coalesce0(one(a).journal_amount)]
      ELSE IF month_key = <<2025, 8>>
      THEN [a \in {x \in acct_list : aug(x) # {}} |-> SumAmounts(aug(a))]
      ELSE << >>

\* The tables the cumulative sums of MONTHS[:idx] query.
CumTablesPresent(tbls, idx) ==
  \A k \in 1..idx : voucher_table(MONTHS[k]) \in tbls

\* ------------------------------------------------------ balance accumulator
ob_map(df) == [a \in DOMAIN df |-> Coalesce0(df[a].opening_balance)]

Row(df, acct, month_key, balance) ==
  [account |-> acct, month_key |-> month_key, balance |-> balance,
   description |-> df[acct].description, account_type |-> df[acct].account_type]

\* rows of the cumulative loop for MONTHS[idx]
RowsCum(df, vs, accts, idx) ==
  {Row(df, a, MONTHS[idx], DictGet(ob_map(df), a, 0) + total_vouchers(vs, a, idx)) : a \in accts}

\* rows of the non-cumulative loop for MONTHS[idx], given the fetched dict
RowsNoncum(df, voucher_map, accts, idx) ==
  {Row(df, a, MONTHS[idx], DictGet(ob_map(df), a, 0) + DictGet(voucher_map, a, 0)) : a \in accts}

\* ----------------------------------------------------------- balance writer
RowKey(r) == <<r.account, r.month_key>>

\* INSERT ... ON DUPLICATE KEY UPDATE of one row
UpsertRow(table, r) ==
  IF RowKey(r) \in DOMAIN table
  THEN [opening_balance |-> r.balance,
        description |-> KeepOrFill(table[RowKey(r)].description, r.description),
        account_type |-> KeepOrFill(table[RowKey(r)].account_type, r.account_type)]
  ELSE [opening_balance |-> r.balance, description |-> r.description,
        account_type |-> r.account_type]

\* The committed transaction: the table and the value returned.
upsert_monthly_rows(table, rws) ==
  IF rws = {} THEN [table |-> table, n |-> 0]
  ELSE [table |-> [k \in DOMAIN table \cup {RowKey(r) : r \in rws} |->
                     IF \E r \in rws : RowKey(r) = k
                     THEN UpsertRow(table, CHOOSE r \in rws : RowKey(r) = k)
                     ELSE table[k]],
        n |-> Cardinality(rws)]

\* Mutant: no transaction; the rows executed before the failing one stay.
rolled_back_partial(table, rws) ==
  IF rws = {} THEN table
  ELSE upsert_monthly_rows(table, {CHOOSE r \in rws : TRUE}).table

\* The table after the except branch: ROLLBACK of the failed transaction.
rolled_back(table, rws) == table

\* Mutant: the check forgets the historical table.
required_tables_short == {OPENING_BALANCE_TABLE, MONTHLY_TABLE}

required_tables == {OPENING_BALANCE_TABLE, HISTORICAL_TABLE, MONTHLY_TABLE}

\* ------------------------------------------------------------ initial states
EmptyTable == << >>

\* Rows left in monthly_balance by earlier processing: one account's first
\* and last month, with each of NULL, '' and a text in each metadata column.
StoredMeta == { <<NULL, EMPTY>>, <<EMPTY, TxtOld>>, <<TxtOld, NULL>> }
StoredTables ==
  { [k \in {<<a, MONTHS[1]>>, <<a, MONTHS[NumMonths]>>} |->
       [opening_balance |-> 1, description |-> m[1], account_type |-> m[2]]] :
    a \in Accounts, m \in StoredMeta }

RunReset ==
  /\ ob_df_all = << >>
  /\ accounts_cum = {}
  /\ accounts_noncum = {}
  /\ i = 0
  /\ rows = {}
  /\ n = 0
  /\ ob_read = FALSE
  /\ failure_seen = FALSE
  /\ fetch_failed = {}
  /\ writes = << >>

InitCommon ==
  /\ historical_variance = DefaultHistorical
  /\ vouchers = DefaultVouchers
  /\ pc = "idle"
  /\ exit_code = EXIT_OK
  /\ RunReset
  /\ events = MaxEvents
  /\ last_done = {}
  /\ changed = {}

\* Any snapshot over the accounts, an empty output table, a full schema.
InitSnapshots ==
  /\ opening_balance \in UNION {[S -> SnapshotRows] : S \in SUBSET Accounts}
  /\ monthly_balance = EmptyTable
  /\ tables = AllTables

\* A previously filled output table against each incoming description.
InitStored ==
  /\ opening_balance \in
       {[DefaultSnapshot EXCEPT !["4000"].description = d] : d \in {NULL, EMPTY, TxtFees}}
  /\ monthly_balance \in StoredTables
  /\ tables = AllTables

\* A schema with one table missing.
InitSchema ==
  /\ opening_balance = DefaultSnapshot
  /\ monthly_balance = EmptyTable
  /\ tables \in {AllTables \ {t} : t \in AllTables}

Init == InitCommon /\ (InitSnapshots \/ InitStored \/ InitSchema)

\* ------------------------------------------------------------------ actions
Abort(code) ==
  /\ pc' = "aborted"
  /\ exit_code' = code

\* A successful end records the table and the months of swallowed fetch
\* failures, for comparison with the next successful run.
EndOk(table) ==
  /\ pc' = "done"
  /\ exit_code' = EXIT_OK
  /\ last_done' = {[table |-> table, fetch_failed |-> fetch_failed]}
  /\ changed' = {}

\* python apply_historical_to_monthly.py
StartRun ==
  /\ pc \in {"idle", "done", "aborted"}
  /\ pc' = "preflight"
  /\ ob_df_all' = << >>
  /\ accounts_cum' = {}
  /\ accounts_noncum' = {}
  /\ i' = 0
  /\ rows' = {}
  /\ n' = 0
  /\ ob_read' = FALSE
  /\ failure_seen' = FALSE
  /\ fetch_failed' = {}
  /\ writes' = << >>
  /\ UNCHANGED <<tables, opening_balance, historical_variance, vouchers, monthly_balance,
                 exit_code, events, last_done, changed>>

\* lines 43-50: the required-tables check
Preflight ==
  /\ pc = "preflight"
  /\ IF required_tables \subseteq tables
     THEN pc' = "load" /\ UNCHANGED exit_code
     ELSE Abort(EXIT_TABLE_MISSING)
  /\ UNCHANGED <<tables, opening_balance, historical_variance, vouchers, monthly_balance,
                 ob_df_all, accounts_cum, accounts_noncum, i, rows, n, events,
                 ob_read, failure_seen, fetch_failed, writes, last_done, changed>>

\* lines 52-71: load the snapshot, split the groups, exit 0 when both are empty
LoadOpening ==
  /\ pc = "load"
  /\ ob_read' = TRUE
  /\ ob_df_all' = opening_balance
  /\ accounts_cum' = AccountsCum(opening_balance)
  /\ accounts_noncum' = AccountsNoncum(opening_balance)
  /\ IF accounts_cum' = {} /\ accounts_noncum' = {}
     THEN EndOk(monthly_balance) /\ i' = i
     ELSE /\ pc' = IF accounts_cum' # {} THEN "cum_compute" ELSE "noncum_fetch"
          /\ i' = 1
          /\ UNCHANGED <<exit_code, last_done, changed>>
  /\ UNCHANGED <<tables, opening_balance, historical_variance, vouchers, monthly_balance,
                 rows, n, events, failure_seen, fetch_failed, writes>>

\* line 54 raising: nothing catches it
LoadOpeningFail ==
  /\ pc = "load"
  /\ events > 0
  /\ events' = events - 1
  /\ ob_read' = TRUE
  /\ failure_seen' = TRUE
  /\ Abort(EXIT_UNCAUGHT)
  /\ UNCHANGED <<tables, opening_balance, historical_variance, vouchers, monthly_balance,
                 ob_df_all, accounts_cum, accounts_noncum, i, rows, n,
                 fetch_failed, writes, last_done, changed>>

\* lines 176-214: the sums and the rows of MONTHS[i] for the cumulative group
CumCompute ==
  /\ pc = "cum_compute"
  /\ CumTablesPresent(tables, i)
  /\ rows' = RowsCum(ob_df_all, vouchers, accounts_cum, i)
  /\ pc' = "cum_upsert"
  /\ UNCHANGED <<tables, opening_balance, historical_variance, vouchers, monthly_balance,
                 exit_code, ob_df_all, accounts_cum, accounts_noncum, i, n, events,
                 ob_read, failure_seen, fetch_failed, writes, last_done, changed>>

\* line 203 raising (a missing table, or a transient failure): nothing catches it
CumComputeFail ==
  /\ pc = "cum_compute"
  /\ \/ ~CumTablesPresent(tables, i) /\ events' = events
     \/ CumTablesPresent(tables, i) /\ events > 0 /\ events' = events - 1
  /\ failure_seen' = TRUE
  /\ Abort(EXIT_UNCAUGHT)
  /\ UNCHANGED <<tables, opening_balance, historical_variance, vouchers, monthly_balance,
                 ob_df_all, accounts_cum, accounts_noncum, i, rows, n,
                 ob_read, fetch_failed, writes, last_done, changed>>

\* Mutant: both groups are processed month by month.
AfterUpsertInterleaved(group) ==
  IF group = "cum" /\ accounts_noncum # {}
  THEN i' = i /\ pc' = "noncum_fetch"
  ELSE IF i < NumMonths
  THEN /\ i' = i + 1
       /\ pc' = IF accounts_cum # {} THEN "cum_compute" ELSE "noncum_fetch"
  ELSE i' = i /\ pc' = "finish"

\* The position after the batch of MONTHS[i] of a group is committed.
AfterUpsert(group) ==
  IF i < NumMonths
  THEN /\ i' = i + 1
       /\ pc' = IF group = "cum" THEN "cum_compute" ELSE "noncum_fetch"
  ELSE IF group = "cum" /\ accounts_noncum # {}
  THEN i' = 1 /\ pc' = "noncum_fetch"
  ELSE i' = i /\ pc' = "finish"

\* lines 143-161 succeeding, called from line 216 or line 235
Upsert(group) ==
  /\ pc = IF group = "cum" THEN "cum_upsert" ELSE "noncum_upsert"
  /\ monthly_balance' = upsert_monthly_rows(monthly_balance, rows).table
  /\ n' = upsert_monthly_rows(monthly_balance, rows).n
  /\ writes' = Append(writes, <<group, i>>)
  /\ AfterUpsert(group)
  /\ UNCHANGED <<tables, opening_balance, historical_variance, vouchers, exit_code,
                 ob_df_all, accounts_cum, accounts_noncum, rows, events,
                 ob_read, failure_seen, fetch_failed, last_done, changed>>

CumUpsert == Upsert("cum")
NoncumUpsert == Upsert("noncum")

\* lines 162-165: a statement of the transaction raised; ROLLBACK, sys.exit(5)
UpsertFail ==
  /\ pc \in {"cum_upsert", "noncum_upsert"}
  /\ events > 0
  /\ events' = events - 1
  /\ monthly_balance' = rolled_back(monthly_balance, rows)
  /\ failure_seen' = TRUE
  /\ Abort(EXIT_UPSERT)
  /\ UNCHANGED <<tables, opening_balance, historical_variance, vouchers,
                 ob_df_all, accounts_cum, accounts_noncum, i, rows, n,
                 ob_read, fetch_failed, writes, last_done, changed>>

\* lines 225-233 with the fetch succeeding
NoncumFetch ==
  /\ pc = "noncum_fetch"
  /\ voucher_table(MONTHS[i]) \in tables
  /\ rows' = RowsNoncum(ob_df_all,
                        fetch_voucher_amounts_for_month(vouchers, MONTHS[i], accounts_noncum),
                        accounts_noncum, i)
  /\ pc' = "noncum_upsert"
  /\ UNCHANGED <<tables, opening_balance, historical_variance, vouchers, monthly_balance,
                 exit_code, ob_df_all, accounts_cum, accounts_noncum, i, n, events,
                 ob_read, failure_seen, fetch_failed, writes, last_done, changed>>

\* lines 126-128: the query raised (a missing table, or a transient failure);
\* the helper prints and returns {}, and the loop goes on with it
NoncumFetchFail ==
  /\ pc = "noncum_fetch"
  /\ \/ voucher_table(MONTHS[i]) \notin tables /\ events' = events
     \/ voucher_table(MONTHS[i]) \in tables /\ events > 0 /\ events' = events - 1
  /\ failure_seen' = TRUE
  /\ fetch_failed' = fetch_failed \cup {i}
  /\ rows' = RowsNoncum(ob_df_all, << >>, accounts_noncum, i)
  /\ pc' = "noncum_upsert"
  /\ UNCHANGED <<tables, opening_balance, historical_variance, vouchers, monthly_balance,
                 exit_code, ob_df_all, accounts_cum, accounts_noncum, i, n,
                 ob_read, writes, last_done, changed>>

\* lines 238-239
Finish ==
  /\ pc = "finish"
  /\ EndOk(monthly_balance)
  /\ UNCHANGED <<tables, opening_balance, historical_variance, vouchers, monthly_balance,
                 ob_df_all, accounts_cum, accounts_noncum, i, rows, n, events,
                 ob_read, failure_seen, fetch_failed, writes>>

\* The environment posts one voucher row after a successful run.
PostVoucher ==
  /\ pc = "done"
  /\ events > 0
  /\ events' = events - 1
  /\ \E a \in Accounts, d \in PostDates :
       /\ vouchers' = vouchers \cup
            {Voucher(Cardinality(vouchers) + 1, voucher_table(d), a, d, PostAmount, "JV")}
       /\ changed' = changed \cup {<<a, d>>}
  /\ UNCHANGED <<tables, opening_balance, historical_variance, monthly_balance,
                 pc, exit_code, ob_df_all, accounts_cum, accounts_noncum, i, rows, n,
                 ob_read, failure_seen, fetch_failed, writes, last_done>>

Next ==
  \/ StartRun
  \/ Preflight
  \/ LoadOpening
  \/ LoadOpeningFail
  \/ CumCompute
  \/ CumComputeFail
  \/ CumUpsert
  \/ NoncumFetch
  \/ NoncumFetchFail
  \/ NoncumUpsert
  \/ UpsertFail
  \/ Finish
  \/ PostVoucher

Spec == Init /\ [][Next]_vars

\* ====================================================================
\* Properties
\* ====================================================================
\* The quantities the properties speak of, stated from the tables alone.
Window == 1..9
Markers == {"BRTFWD", "ROLCLR", "OBTFER"}

\* The account's transactions dated in month k of 2025, markers excluded, in
\* the transaction table of that month.
Activity(a, k) ==
  SumAmounts({r \in vouchers :
                /\ r.account_code = a
                /\ r.transaction_date = <<2025, k>>
                /\ r.voucher \notin Markers
                /\ r.tbl = IF k <= 7 THEN "vouchers" ELSE "vouchers_curr_month"})

RECURSIVE ActivityThrough(_, _)
ActivityThrough(a, k) ==
  IF k = 0 THEN 0 ELSE ActivityThrough(a, k - 1) + Activity(a, k)

\* The opening balance of the snapshot, NULL counting as 0.
Opening(a) ==
  IF opening_balance[a].opening_balance = << >> THEN 0
  ELSE opening_balance[a].opening_balance[1]

\* The journal amount of the historical-variance table, 0 without a record.
Journal(a, k) ==
  LET d == fetch_historical_for_month(historical_variance, vouchers, <<2025, k>>, {a}, FALSE)
  IN  IF a \in DOMAIN d THEN d[a] ELSE 0

TypeText(a) == StrLower(AsStr(opening_balance[a].account_type))
HasKeyword(a, kws) == \E kw \in kws : StrContains(TypeText(a), kw)

Stored(a, k) == monthly_balance[<<a, <<2025, k>>>>]
HasRow(a, k) == <<a, <<2025, k>>>> \in DOMAIN monthly_balance

\* The run has issued its last write and is about to end successfully.
Completed == pc = "finish"

\* C1: after a run that completes, the row (account, month k) of every
\* account of the cumulative group holds the opening balance plus the
\* account's activity of months 1..k, markers excluded.
C1_CumulativeBalance ==
  Completed =>
    \A a \in accounts_cum : \A k \in Window :
      HasRow(a, k) /\ Stored(a, k).opening_balance = Opening(a) + ActivityThrough(a, k)

\* The same for the accounts that are in the cumulative group only.
CumulativeOnlyBalance ==
  Completed =>
    \A a \in accounts_cum \ accounts_noncum : \A k \in Window :
      HasRow(a, k) /\ Stored(a, k).opening_balance = Opening(a) + ActivityThrough(a, k)

\* C2: every account of the snapshot is in at most one of the two groups,
\* and in neither exactly when its lower-cased type contains none of the
\* four keywords.
C2_Partition ==
  ob_read /\ pc # "aborted" =>
    \A a \in DOMAIN opening_balance :
      /\ ~(a \in accounts_cum /\ a \in accounts_noncum)
      /\ (a \notin accounts_cum \cup accounts_noncum)
           <=> ~HasKeyword(a, {KwAsset, KwLiab, KwIncome, KwExpens})

UpsertCommitted == pc \in {"cum_upsert", "noncum_upsert"} /\ pc' \notin {pc, "aborted"}
UpsertAborted == pc \in {"cum_upsert", "noncum_upsert"} /\ pc' = "aborted"
BatchKeys == {<<r.account, r.month_key>> : r \in rows}
Filled(x) == x # <<"NULL">> /\ x # << >>

\* C4: an upsert of a row stores the incoming balance; it keeps the stored
\* description and account_type when they are neither NULL nor '', and stores
\* the incoming ones otherwise (also for a key not stored before).  No step
\* clears or replaces a description or account_type that is not empty.
C4_MetadataKept ==
  [][ /\ UpsertCommitted =>
           \A r \in rows :
             LET k == <<r.account, r.month_key>> IN
             /\ k \in DOMAIN monthly_balance'
             /\ monthly_balance'[k].opening_balance = r.balance
             /\ monthly_balance'[k].description =
                  IF k \in DOMAIN monthly_balance /\ Filled(monthly_balance[k].description)
                  THEN monthly_balance[k].description ELSE r.description
             /\ monthly_balance'[k].account_type =
                  IF k \in DOMAIN monthly_balance /\ Filled(monthly_balance[k].account_type)
                  THEN monthly_balance[k].account_type ELSE r.account_type
      /\ \A k \in DOMAIN monthly_balance :
           /\ k \in DOMAIN monthly_balance'
           /\ Filled(monthly_balance[k].description) =>
                monthly_balance'[k].description = monthly_balance[k].description
           /\ Filled(monthly_balance[k].account_type) =>
                monthly_balance'[k].account_type = monthly_balance[k].account_type
    ]_vars

\* A stored row whose description was '' and whose account_type was 'Old'
\* has been upserted with description 'Cash' and another account_type.
C4_Witness ==
  /\ Completed
  /\ \E a \in accounts_cum :
       /\ HasRow(a, 1)
       /\ Stored(a, 1).account_type = TxtOld
       /\ Stored(a, 1).description = TxtCash
       /\ Stored(a, 1).opening_balance # 1
       /\ opening_balance[a].account_type # TxtOld

\* C5: a run that completes after an earlier completed run, with no input
\* changed in between, leaves the table as the earlier run left it.
C5_Idempotent ==
  Completed /\ changed = {} =>
    \A d \in last_done : monthly_balance = d.table

\* C6 as stated: when one of the input tables the computation consumes (the
\* snapshot, the historical table, a transaction table) is missing, the run
\* ends at the pre-flight check with a non-zero status, having read no
\* snapshot and written nothing.
C6_PreflightInputTables ==
  /\ pc \notin {"idle", "preflight"}
  /\ \E t \in {"opening_balance", "historical_variance", "vouchers", "vouchers_curr_month"} :
       t \notin tables
  => /\ pc = "aborted"
     /\ exit_code # 0
     /\ ~ob_read
     /\ writes = << >>

\* C6 as amended: when one of opening_balance, historical_variance and
\* monthly_balance is missing, the run ends at the pre-flight check with
\* status 2, having read no snapshot and written nothing.
C6_PreflightRequiredTables ==
  /\ pc \notin {"idle", "preflight"}
  /\ \E t \in {"opening_balance", "historical_variance", "monthly_balance"} : t \notin tables
  => /\ pc = "aborted"
     /\ exit_code = 2
     /\ ~ob_read
     /\ writes = << >>
     /\ rows = {}

C6_Witness ==
  /\ pc = "aborted"
  /\ exit_code = 2
  /\ "historical_variance" \notin tables
  /\ opening_balance # << >>

\* C7: once a query or an upsert of the run has failed, no step writes to
\* monthly_balance.
C7_FailureTerminal ==
  [][failure_seen => monthly_balance' = monthly_balance]_vars

C9_PeriodicIndependence ==
  Completed =>
    \A d \in last_done : \A a \in accounts_noncum : \A k \in Window :
      <<a, <<2025, k>>>> \notin changed
        => /\ HasRow(a, k)
           /\ <<a, <<2025, k>>>> \in DOMAIN d.table
           /\ Stored(a, k).opening_balance = d.table[<<a, <<2025, k>>>>].opening_balance

\* The same for the months whose query failed in both runs or in neither.
PeriodicSameOutcome ==
  Completed =>
    \A d \in last_done : \A a \in accounts_noncum : \A k \in Window :
      (<<a, <<2025, k>>>> \notin changed /\ (k \in fetch_failed <=> k \in d.fetch_failed))
        => /\ HasRow(a, k)
           /\ <<a, <<2025, k>>>> \in DOMAIN d.table
           /\ Stored(a, k).opening_balance = d.table[<<a, <<2025, k>>>>].opening_balance

\* Two successive completed runs with the same failed fetches and no input
\* changed in between leave the same table.
IdempotentSameOutcome ==
  Completed /\ changed = {} =>
    \A d \in last_done : fetch_failed = d.fetch_failed => monthly_balance = d.table

\* The batches a run commits when nothing stops it: the cumulative group's
\* months 1..9 when it is not empty, then the periodic group's.
FullOrder ==
  (IF accounts_cum = {} THEN << >> ELSE [k \in Window |-> <<"cum", k>>])
  \o (IF accounts_noncum = {} THEN << >> ELSE [k \in Window |-> <<"noncum", k>>])

\* C10: in every state the batches committed by the run are a prefix of that
\* order (one write per group and month, in window order, no periodic batch
\* before the ninth cumulative one), a batch about to be written holds one
\* row of its month for every account of its group, and a run that completes
\* has committed them all.
C10_WriteOrder ==
  /\ ((ob_read /\ pc # "aborted") \/ writes # << >>) =>
       /\ Len(writes) <= Len(FullOrder)
       /\ writes = SubSeq(FullOrder, 1, Len(writes))
  /\ pc = "cum_upsert" =>
       /\ {r.account : r \in rows} = accounts_cum
       /\ \A r \in rows : r.month_key = <<2025, i>>
       /\ writes = SubSeq(FullOrder, 1, i - 1)
  /\ pc = "noncum_upsert" =>
       /\ {r.account : r \in rows} = accounts_noncum
       /\ \A r \in rows : r.month_key = <<2025, i>>
       /\ Len(writes) = (IF accounts_cum = {} THEN 0 ELSE 9) + i - 1
  /\ Completed => writes = FullOrder

\* A run aborted in the periodic group after all nine cumulative batches.
C10_Witness ==
  /\ pc = "aborted"
  /\ accounts_cum # {}
  /\ Len(writes) > 9
  /\ Len(writes) < 18

====
